---------------------------- MODULE Spec2Model ----------------------------
(***************************************************************************)
(* Model of the emergency-shelter API (src/app.py): CSV ingestion, the     *)
(* lru_cache'd dataset loader, and the /shelters, /nearest and             *)
(* /nearest/by-zip handlers.                                               *)
(*                                                                         *)
(* Text is modelled as a sequence of one-character strings, so that        *)
(* strip(), lower(), split(","), "in" and float()/int() are computed and   *)
(* not assumed.  Python's None is the one-element sequence <<"None">>,     *)
(* which no text equals (its element is not a single character).           *)
(*                                                                         *)
(* The module is plain ASCII.  The Japanese column names of the source are *)
(* written in romaji: ido = latitude column, keido = longitude column,     *)
(* shisetsu_bashomei = facility-name column, jusho = address column,       *)
(* kyotsuID = common-identifier column, biko = remarks column, and fumei   *)
(* is the "unknown" name sentinel.                                         *)
(***************************************************************************)
EXTENDS Integers, Sequences, FiniteSets, TLC

(***************************************************************************)
(* Bounds of the model.                                                    *)
(***************************************************************************)
MaxRows == 2
NumThreads == 2
MaxRequests == 3

(***************************************************************************)
(* Program constants.                                                      *)
(***************************************************************************)
LIST_LIMIT_MAX == 500
LIST_LIMIT_DEFAULT == 100
NEAREST_LIMIT_MAX == 50
NEAREST_LIMIT_DEFAULT == 5
ZIP_LENGTH == 7

None == <<"None">>

(***************************************************************************)
(* Text helpers: str.strip, str.lower, "x in s", str.split(",").           *)
(***************************************************************************)
IsSpace(c) == c = " "

RECURSIVE LStrip(_)
LStrip(s) ==
    IF s # <<>> /\ IsSpace(Head(s)) THEN LStrip(Tail(s)) ELSE s

RECURSIVE RStrip(_)
RStrip(s) ==
    IF s # <<>> /\ IsSpace(s[Len(s)]) THEN RStrip(SubSeq(s, 1, Len(s) - 1)) ELSE s

Strip(s) == RStrip(LStrip(s))

LowerChar(c) ==
    CASE c = "A" -> "a"
      [] c = "B" -> "b"
      [] c = "I" -> "i"
      [] c = "N" -> "n"
      [] c = "F" -> "f"
      [] OTHER -> c

Lower(s) == [i \in 1..Len(s) |-> LowerChar(s[i])]

\* needle in hay, for Python str
Contains(hay, needle) ==
    \E i \in 0..(Len(hay) - Len(needle)) :
        SubSeq(hay, i + 1, i + Len(needle)) = needle

\* s.split(","): the segments between commas, empty ones included
RECURSIVE SplitFrom(_, _, _)
SplitFrom(s, i, cur) ==
    IF i > Len(s) THEN <<cur>>
    ELSE IF s[i] = "," THEN <<cur>> \o SplitFrom(s, i + 1, <<>>)
    ELSE SplitFrom(s, i + 1, Append(cur, s[i]))

Split(s) == SplitFrom(s, 1, <<>>)

\* Python truthiness of an Optional[str]
Truthy(v) == v # None /\ v # <<>>

\* a or b
Or(a, b) == IF Truthy(a) THEN a ELSE b

(***************************************************************************)
(* float() and int().  A float is [k, v]: k = "num" with the integer value *)
(* v, or "nan", "inf", "ninf".  The model's alphabet has no "." and no     *)
(* exponent, so every numeral is an integer numeral.  NoFloat is the None  *)
(* that _safe_float returns.                                               *)
(***************************************************************************)
Digits == {"0", "1", "2", "3", "4", "5", "6", "7", "8", "9"}

DigitVal(c) ==
    CASE c = "0" -> 0 [] c = "1" -> 1 [] c = "2" -> 2 [] c = "3" -> 3
      [] c = "4" -> 4 [] c = "5" -> 5 [] c = "6" -> 6 [] c = "7" -> 7
      [] c = "8" -> 8 [] c = "9" -> 9

IsDigits(s) == s # <<>> /\ \A i \in 1..Len(s) : s[i] \in Digits

RECURSIVE DigitsVal(_)
DigitsVal(s) ==
    IF s = <<>> THEN 0
    ELSE 10 * DigitsVal(SubSeq(s, 1, Len(s) - 1)) + DigitVal(s[Len(s)])

Num(n) == [k |-> "num", v |-> n]
NaN == [k |-> "nan", v |-> 0]
PosInf == [k |-> "inf", v |-> 0]
NegInf == [k |-> "ninf", v |-> 0]
NoFloat == [k |-> "none", v |-> 0]

HasSign(s) == s # <<>> /\ Head(s) \in {"+", "-"}
Unsigned(s) == IF HasSign(s) THEN Tail(s) ELSE s
IsNegative(s) == s # <<>> /\ Head(s) = "-"

\* float(text): NoFloat stands for the ValueError
FloatOfText(text) ==
    LET s == Strip(text)
        body == Lower(Unsigned(s))
    IN  IF body = <<"n", "a", "n">> THEN NaN
        ELSE IF body \in {<<"i", "n", "f">>, <<"i", "n", "f", "i", "n", "i", "t", "y">>}
             THEN IF IsNegative(s) THEN NegInf ELSE PosInf
        ELSE IF IsDigits(body)
             THEN Num(IF IsNegative(s) THEN 0 - DigitsVal(body) ELSE DigitsVal(body))
        ELSE NoFloat

\* _safe_float(value): float(None) raises TypeError, a bad text ValueError
_safe_float(value) ==
    IF value = None THEN NoFloat ELSE FloatOfText(value)

NoInt == [ok |-> FALSE, v |-> 0]

\* int(text): NoInt stands for the ValueError
IntOfText(text) ==
    LET s == Strip(text)
        body == Unsigned(s)
    IN  IF IsDigits(body)
        THEN [ok |-> TRUE, v |-> IF IsNegative(s) THEN 0 - DigitsVal(body) ELSE DigitsVal(body)]
        ELSE NoInt

IsFinite(x) == x.k = "num"

\* Python's a <= b and a > b on floats: every comparison with nan is False
FloatLe(a, b) ==
    CASE a.k = "nan" \/ b.k = "nan" -> FALSE
      [] a.k = "ninf" \/ b.k = "inf" -> TRUE
      [] a.k = "inf" \/ b.k = "ninf" -> FALSE
      [] OTHER -> a.v <= b.v

FloatGt(a, b) ==
    CASE a.k = "nan" \/ b.k = "nan" -> FALSE
      [] a.k = "ninf" \/ b.k = "inf" -> FALSE
      [] a.k = "inf" \/ b.k = "ninf" -> TRUE
      [] OTHER -> a.v > b.v


(***************************************************************************)
(* haversine_km.  Distances are integers in units of 1e-4 km.  The sines   *)
(* and cosines are tabulated for multiples of 90 degrees, where twice the  *)
(* haversine term a is 0, 1 or 2 and the distance is 0, R*pi/2 or R*pi     *)
(* with R = 6371.0.  With the origin on the equator the floating-point     *)
(* results of the source coincide exactly where these values do.           *)
(* math.sin and math.cos raise ValueError on an infinity; with a nan the   *)
(* term a is nan, min(1.0, nan) is 1.0 and the result is R*pi.             *)
(***************************************************************************)
DIST_ZERO == 0
DIST_QUARTER == 100075434
DIST_HALF == 200150868

Mod360(d) == d % 360

\* 2 * sin(radians(d) / 2) ** 2
TwiceSinSqHalf(d) ==
    CASE Mod360(d) = 0 -> 0
      [] Mod360(d) = 90 -> 1
      [] Mod360(d) = 180 -> 2
      [] Mod360(d) = 270 -> 1

\* cos(radians(d))
CosDeg(d) ==
    CASE Mod360(d) = 0 -> 1
      [] Mod360(d) = 90 -> 0
      [] Mod360(d) = 270 -> 0

\* [ok, d]: ok = FALSE is the ValueError ("math domain error")
haversine_km(lat1, lon1, lat2, lon2) ==
    IF \E x \in {lat1, lon1, lat2, lon2} : x.k \in {"inf", "ninf"}
    THEN [ok |-> FALSE, d |-> 0]
    ELSE IF \E x \in {lat1, lon1, lat2, lon2} : x.k = "nan"
    THEN [ok |-> TRUE, d |-> DIST_HALF]
    ELSE LET a2 == TwiceSinSqHalf(lat2.v - lat1.v)
                   + CosDeg(lat1.v) * CosDeg(lat2.v) * TwiceSinSqHalf(lon2.v - lon1.v)
         IN  [ok |-> TRUE,
              d |-> CASE a2 = 0 -> DIST_ZERO
                      [] a2 = 1 -> DIST_QUARTER
                      [] a2 >= 2 -> DIST_HALF]

\* round(distance_km, 3), in units of 1e-3 km
Round3(d) == (d + 5) \div 10

(***************************************************************************)
(* CSV rows and the two row parsers.  A row is what csv.DictReader yields: *)
(* a function from the header's column names to cells, a cell being a text *)
(* or None (a short row).  row.get of a column the header lacks is None.   *)
(***************************************************************************)
COL_LAT_A == "ido"
COL_LON_A == "keido"
COL_NAME_A == "shisetsu_bashomei"
COL_ADDR_A == "jusho"
COL_ID_A == "kyotsuID"
COL_NOTES_A == "biko"
UNKNOWN_NAME == <<"f", "u", "m", "e", "i">>

RowGet(row, col) == IF col \in DOMAIN row THEN row[col] ELSE None

Shelter(id, name, address, latitude, longitude, notes) ==
    [id |-> id, name |-> name, address |-> address,
     latitude |-> latitude, longitude |-> longitude, notes |-> notes]

\* Optional[Shelter] is a sequence of at most one Shelter
_parse_row_13121(row) ==
    LET lat == _safe_float(RowGet(row, COL_LAT_A))
        lon == _safe_float(RowGet(row, COL_LON_A))
    IN  IF lat = NoFloat \/ lon = NoFloat THEN <<>>
        ELSE << Shelter(Or(RowGet(row, COL_ID_A), <<>>),
                        Or(RowGet(row, COL_NAME_A), UNKNOWN_NAME),
                        Or(RowGet(row, COL_ADDR_A), <<>>),
                        lat, lon,
                        Or(RowGet(row, COL_NOTES_A), <<>>)) >>

MergeLatCell(row) ==
    Or(RowGet(row, "lat"), Or(RowGet(row, "latitude"), RowGet(row, COL_LAT_A)))

MergeLonCell(row) ==
    Or(RowGet(row, "lon"),
       Or(RowGet(row, "lng"), Or(RowGet(row, "longitude"), RowGet(row, COL_LON_A))))

MergeNameCellPlaceFirst(row) ==
    Or(RowGet(row, "name"), Or(RowGet(row, "place"), RowGet(row, COL_NAME_A)))

MergeNameCell(row) ==
    Or(RowGet(row, "name"), Or(RowGet(row, COL_NAME_A), RowGet(row, "place")))

MergeAddressCell(row) == Or(RowGet(row, "address"), RowGet(row, COL_ADDR_A))

_parse_row_merge(row) ==
    LET lat == _safe_float(MergeLatCell(row))
        lon == _safe_float(MergeLonCell(row))
        name == MergeNameCell(row)
        address == MergeAddressCell(row)
    IN  IF lat = NoFloat \/ lon = NoFloat THEN <<>>
        ELSE << Shelter(Or(RowGet(row, "id"), Or(RowGet(row, COL_ID_A), <<>>)),
                        Or(name, UNKNOWN_NAME),
                        Or(address, <<>>),
                        lat, lon,
                        Or(RowGet(row, COL_NOTES_A), <<>>)) >>

\* key in ",".join(header).  No column name of the model contains a comma
\* or another column's name, so the substring test is a membership test.
InHeaderStr(key, header) == \E i \in 1..Len(header) : header[i] = key

\* "13121" or "merge"
_choose_parser(header) ==
    IF InHeaderStr(COL_NAME_A, header) /\ InHeaderStr(COL_LAT_A, header)
       /\ InHeaderStr(COL_LON_A, header)
    THEN "13121" ELSE "merge"

ApplyParser(parser, row) ==
    IF parser = "13121" THEN _parse_row_13121(row) ELSE _parse_row_merge(row)

\* the loop of load_shelters over the reader's rows
RECURSIVE ParseRows(_, _)
ParseRows(parser, rows) ==
    IF rows = <<>> THEN <<>>
    ELSE ApplyParser(parser, Head(rows)) \o ParseRows(parser, Tail(rows))

\* the body of load_shelters once the file is open
ReadShelters(file) == ParseRows(_choose_parser(file.header), file.rows)

(***************************************************************************)
(* sort_by_distance: (shelter, distance) pairs, then list.sort on the      *)
(* distance.  list.sort is stable; for the short lists of the model it is  *)
(* a binary insertion sort, each pair going after the pairs that are not   *)
(* greater.  ok = FALSE is haversine_km's ValueError.                      *)
(***************************************************************************)
RECURSIVE InsertPair(_, _)
InsertPair(sorted, pair) ==
    IF sorted = <<>> THEN <<pair>>
    ELSE IF pair.d < Head(sorted).d THEN <<pair>> \o sorted
    ELSE <<Head(sorted)>> \o InsertPair(Tail(sorted), pair)

RECURSIVE SortPairs(_)
SortPairs(pairs) ==
    IF pairs = <<>> THEN <<>>
    ELSE InsertPair(SortPairs(SubSeq(pairs, 1, Len(pairs) - 1)), pairs[Len(pairs)])

DistancePairs(lat, lon, shelters) ==
    [i \in 1..Len(shelters) |->
        [shelter |-> shelters[i],
         d |-> haversine_km(lat, lon, shelters[i].latitude, shelters[i].longitude).d]]

sort_by_distance(lat, lon, shelters) ==
    IF \E i \in 1..Len(shelters) :
          ~haversine_km(lat, lon, shelters[i].latitude, shelters[i].longitude).ok
    THEN [ok |-> FALSE, pairs |-> <<>>]
    ELSE [ok |-> TRUE, pairs |-> SortPairs(DistancePairs(lat, lon, shelters))]

(***************************************************************************)
(* Responses.  A handled response is a status with a JSON body; an         *)
(* exception no handler catches leaves the view function (Flask answers    *)
(* 500 for it, or re-raises it in debug and test mode): status 500 with    *)
(* exc naming the exception.                                               *)
(***************************************************************************)
NoBody == [kind |-> "none"]

NoResponse == [status |-> 0, error |-> "", exc |-> "", msg |-> <<>>, body |-> NoBody]

Json(status, body) ==
    [status |-> status, error |-> "", exc |-> "", msg |-> <<>>, body |-> body]

JsonError(status, error) ==
    [status |-> status, error |-> error, exc |-> "", msg |-> <<>>, body |-> NoBody]

Unhandled(exc, msg) ==
    [status |-> 500, error |-> "", exc |-> exc, msg |-> msg, body |-> NoBody]

\* Shelter.to_dict
to_dict(s) ==
    [id |-> s.id, name |-> s.name, address |-> s.address,
     lat |-> s.latitude, lon |-> s.longitude, notes |-> s.notes]

Max(a, b) == IF a >= b THEN a ELSE b
Min(a, b) == IF a <= b THEN a ELSE b

\* seq[lo : hi] of Python, lo >= 0
Slice(seq, lo, hi) == SubSeq(seq, lo + 1, Min(hi, Len(seq)))

(***************************************************************************)
(* list_shelters, from the loaded list on (lines 183-238).                 *)
(***************************************************************************)
\* (request.args.get(name) or "").strip()
StrippedArg(v) == Strip(Or(v, <<>>))

\* the q test, forgetting the address
NameHas(s, q_lower) == s.name # <<>> /\ Contains(Lower(s.name), q_lower)

NameOrAddressHas(s, q_lower) ==
    \/ (s.name # <<>> /\ Contains(Lower(s.name), q_lower))
    \/ (s.address # <<>> /\ Contains(Lower(s.address), q_lower))

FilterByQ(items, q) == SelectSeq(items, LAMBDA s : NameOrAddressHas(s, Lower(q)))

\* [p.strip() for p in bbox.split(",") if p.strip()]
BboxParts(bbox) ==
    LET segs == Split(bbox)
        kept == SelectSeq(segs, LAMBDA p : Strip(p) # <<>>)
    IN  [i \in 1..Len(kept) |-> Strip(kept[i])]

InBbox(s, min_lon, min_lat, max_lon, max_lat) ==
    /\ FloatLe(min_lat, s.latitude) /\ FloatLe(s.latitude, max_lat)
    /\ FloatLe(min_lon, s.longitude) /\ FloatLe(s.longitude, max_lon)

\* min_lat > max_lat or min_lon > max_lon, forgetting the longitudes
BboxMisorderedLatOnly(min_lon, min_lat, max_lon, max_lat) == FloatGt(min_lat, max_lat)

\* min_lat > max_lat or min_lon > max_lon
BboxMisordered(min_lon, min_lat, max_lon, max_lat) ==
    FloatGt(min_lat, max_lat) \/ FloatGt(min_lon, max_lon)

\* [ok, error, items]: the bbox block, lines 198-212
ApplyBbox(items, bbox) ==
    LET parts == BboxParts(bbox)
    IN  IF Len(parts) # 4
        THEN [ok |-> FALSE, error |-> "bbox must be 'minLon,minLat,maxLon,maxLat'",
              items |-> <<>>]
        ELSE LET min_lon == FloatOfText(parts[1])
                 min_lat == FloatOfText(parts[2])
                 max_lon == FloatOfText(parts[3])
                 max_lat == FloatOfText(parts[4])
             IN  IF NoFloat \in {min_lon, min_lat, max_lon, max_lat}
                 THEN [ok |-> FALSE, error |-> "bbox values must be numbers",
                       items |-> <<>>]
                 ELSE IF BboxMisordered(min_lon, min_lat, max_lon, max_lat)
                 THEN [ok |-> FALSE, error |-> "bbox min must be <= max",
                       items |-> <<>>]
                 ELSE [ok |-> TRUE, error |-> "",
                       items |-> SelectSeq(items,
                           LAMBDA s : InBbox(s, min_lon, min_lat, max_lon, max_lat))]

\* max(1, min(cap, int(param))), or the default on ValueError;
\* param is request.args.get(name, default text)
ClampedLimit(param, cap, default) ==
    LET n == IntOfText(param)
    IN  IF n.ok THEN Max(1, Min(cap, n.v)) ELSE default

ClampedOffset(param) ==
    LET n == IntOfText(param)
    IN  IF n.ok THEN Max(0, n.v) ELSE 0

TEXT_100 == <<"1", "0", "0">>
TEXT_0 == <<"0">>
TEXT_5 == <<"5">>

\* request.args.get(name, default): None stands for a missing parameter
ArgOr(v, default) == IF v = None THEN default ELSE v

list_shelters(all_items, args) ==
    LET q == StrippedArg(args.q)
        bbox == StrippedArg(args.bbox)
        afterQ == IF q # <<>> THEN FilterByQ(all_items, q) ELSE all_items
        boxed == IF bbox # <<>> THEN ApplyBbox(afterQ, bbox)
                 ELSE [ok |-> TRUE, error |-> "", items |-> afterQ]
        filtered == boxed.items
        limit == ClampedLimit(ArgOr(args.limit, TEXT_100), LIST_LIMIT_MAX, LIST_LIMIT_DEFAULT)
        offset == ClampedOffset(ArgOr(args.offset, TEXT_0))
        page_items == Slice(filtered, offset, offset + limit)
        data == [i \in 1..Len(page_items) |-> to_dict(page_items[i])]
    IN  IF ~boxed.ok THEN JsonError(400, boxed.error)
        ELSE Json(200, [kind |-> "list",
                        total |-> Len(filtered),
                        count |-> Len(data),
                        offset |-> offset,
                        limit |-> limit,
                        appliedFilters |->
                            (IF q # <<>> THEN {<<"q", q>>} ELSE {})
                            \cup (IF bbox # <<>> THEN {<<"bbox", bbox>>} ELSE {}),
                        items |-> data])

(***************************************************************************)
(* nearest: the checks before the dataset is loaded (lines 242-255) and    *)
(* the ranking after it (lines 257-266).                                   *)
(***************************************************************************)
\* float(request.args.get(name, ""))
FloatArg(v) == FloatOfText(ArgOr(v, <<>>))

InRange(lo, x, hi) == FloatLe(Num(lo), x) /\ FloatLe(x, Num(hi))

\* "" when the request goes on to load the dataset
NearestArgError(args) ==
    IF FloatArg(args.lat) = NoFloat \/ FloatArg(args.lon) = NoFloat
    THEN "lat and lon must be numbers"
    ELSE IF ~(InRange(-90, FloatArg(args.lat), 90) /\ InRange(-180, FloatArg(args.lon), 180))
    THEN "lat must be in [-90,90], lon in [-180,180]"
    ELSE ""

\* request.args.get("limit") or request.args.get("n") or "5"
NearestLimit(args) ==
    ClampedLimit(Or(args.limit, Or(args.n, TEXT_5)), NEAREST_LIMIT_MAX, NEAREST_LIMIT_DEFAULT)

RankedItems(pairs, limit) ==
    LET top == Slice(pairs, 0, limit)
    IN  [i \in 1..Len(top) |->
            [shelter |-> to_dict(top[i].shelter), distance_km |-> Round3(top[i].d)]]

nearest(all_items, args) ==
    LET lat == FloatArg(args.lat)
        lon == FloatArg(args.lon)
        limit == NearestLimit(args)
        sorted_pairs == sort_by_distance(lat, lon, all_items)
    IN  IF ~sorted_pairs.ok THEN Unhandled("ValueError", <<"math domain error">>)
        ELSE Json(200, [kind |-> "nearest",
                        origin |-> [lat |-> lat, lon |-> lon],
                        limit |-> limit,
                        items |-> RankedItems(sorted_pairs.pairs, limit)])

(***************************************************************************)
(* nearest_by_zip (lines 268-307).  Line 274 passes a bare identifier, not *)
(* a string, to os.environ.get; ENV_KEY_IDENT stands for it.  Evaluating   *)
(* the argument looks the identifier up in the function's locals, in       *)
(* create_app's locals, in the module's globals and in the builtins, which *)
(* are the names of ScopeNames: it is bound in none, and the lookup raises *)
(* NameError before os.environ is read.                                    *)
(***************************************************************************)
ENV_KEY_IDENT == "AIzaSy_bare_identifier"

ScopeNames ==
    {"zip_code", "app", "add_cors_headers", "home", "health", "list_shelters",
     "nearest", "nearest_by_zip", "annotations", "csv", "json", "math", "os",
     "dataclass", "asdict", "lru_cache", "Iterable", "List", "Optional", "Tuple",
     "Flask", "jsonify", "request", "render_template", "Shelter", "_safe_float",
     "haversine_km", "_csv_path_candidates", "_detect_csv_path",
     "_parse_row_13121", "_parse_row_merge", "_choose_parser", "load_shelters",
     "sort_by_distance", "create_app"}

NameIsBound(ident) == ident \in ScopeNames

\* not zip_code or not zip_code.isdigit() or len(zip_code) != 7
ZipIsBad(zip_code) ==
    zip_code = <<>> \/ ~IsDigits(zip_code) \/ Len(zip_code) # ZIP_LENGTH

\* The geocoder as seen by requests.get and resp.json():
\*   "transport": requests.get raises (connection error, timeout after 10 s)
\*   "http_error": a status code other than 200
\*   "no_result": 200 with status != "OK" or no results
\*   "ok": 200 with a location
GeocoderOutcomes == {"transport", "http_error", "no_result", "ok"}

\* lines 280-294, reached with a truthy api_key: [done, response, origin]
Geocode(outcome, location) ==
    CASE outcome = "transport" ->
            [done |-> TRUE, response |-> Unhandled("RequestException", <<>>),
             origin |-> location]
      [] outcome = "http_error" ->
            [done |-> TRUE, response |-> JsonError(502, "Geocode request failed"),
             origin |-> location]
      [] outcome = "no_result" ->
            [done |-> TRUE, response |-> JsonError(404, "Could not geocode zip"),
             origin |-> location]
      [] outcome = "ok" ->
            [done |-> FALSE, response |-> NoResponse, origin |-> location]

\* lines 296-307
nearest_by_zip_tail(all_items, origin, args) ==
    LET limit == ClampedLimit(ArgOr(args.limit, TEXT_5), NEAREST_LIMIT_MAX, NEAREST_LIMIT_DEFAULT)
        sorted_pairs == sort_by_distance(origin.lat, origin.lon, all_items)
    IN  IF ~sorted_pairs.ok THEN Unhandled("ValueError", <<"math domain error">>)
        ELSE Json(200, [kind |-> "zip",
                        origin |-> [lat |-> origin.lat, lon |-> origin.lon,
                                   zip |-> StrippedArg(args.zip)],
                        items |-> RankedItems(sorted_pairs.pairs, limit)])

(***************************************************************************)
(* State.                                                                  *)
(***************************************************************************)
VARIABLES
    fsExists,     \* which candidate data files exist
    fsContent,    \* the header and rows of each candidate file
    cache,        \* load_shelters' lru_cache: the cached result, if any
    heap,         \* the lists load_shelters has built; a list is named by its index
    pc,           \* where each request thread is
    req,          \* the request each thread serves
    loc,          \* the locals of each thread's load_shelters call
    resp,         \* the response of each thread's last finished request
    environ,      \* the names set in os.environ
    geocoder,     \* how the geocoding service answers
    fileReads,    \* how many times open() has opened a data file
    locateCalls,  \* how many times _detect_csv_path has run
    netCalls,     \* how many times requests.get has been called
    loadedOK,     \* a load_shelters call has returned a list
    nreq          \* requests begun

vars == <<fsExists, fsContent, cache, heap, pc, req, loc, resp, environ, geocoder,
          fileReads, locateCalls, netCalls, loadedOK, nreq>>

Threads == 1..NumThreads

\* _csv_path_candidates, in the order tried
CSV_CANDIDATES == <<"mergeFromCity_2.csv", "13121_2.csv">>
Candidates == 1..Len(CSV_CANDIDATES)

NoArgs ==
    [kind |-> "none", q |-> None, bbox |-> None, limit |-> None, offset |-> None,
     lat |-> None, lon |-> None, n |-> None, zip |-> None]

ListArgs(q, bbox, limit, offset) ==
    [NoArgs EXCEPT !.kind = "list", !.q = q, !.bbox = bbox, !.limit = limit,
                   !.offset = offset]

NearestArgs(lat, lon, limit, n) ==
    [NoArgs EXCEPT !.kind = "nearest", !.lat = lat, !.lon = lon, !.limit = limit, !.n = n]

ZipArgs(zip, limit) == [NoArgs EXCEPT !.kind = "zip", !.zip = zip, !.limit = limit]

NoLocals == [path |-> 0, result |-> 0, origin |-> [lat |-> Num(0), lon |-> Num(0)]]

Idle(t) == pc[t] \in {"idle", "done"}

\* a request enters its view function
Enter(t, args, next) ==
    /\ Idle(t)
    /\ req' = [req EXCEPT ![t] = args]
    /\ loc' = [loc EXCEPT ![t] = NoLocals]
    /\ resp' = [resp EXCEPT ![t] = NoResponse]
    /\ pc' = [pc EXCEPT ![t] = next]

\* a request ends with a response
Finish(t, response) ==
    /\ resp' = [resp EXCEPT ![t] = response]
    /\ pc' = [pc EXCEPT ![t] = "done"]

(***************************************************************************)
(* The view functions up to their call of load_shelters.                   *)
(***************************************************************************)
\* GET /shelters: line 180 loads the dataset first
BeginList(t, q, bbox, limit, offset) ==
    /\ Enter(t, ListArgs(q, bbox, limit, offset), "lookup")
    /\ UNCHANGED <<fsExists, fsContent, cache, heap, environ, geocoder,
                   fileReads, locateCalls, netCalls, loadedOK>>

\* GET /nearest: lines 242-255, then load_shelters
BeginNearest(t, lat, lon, limit, n) ==
    LET args == NearestArgs(lat, lon, limit, n)
    IN  /\ Idle(t)
        /\ req' = [req EXCEPT ![t] = args]
        /\ loc' = [loc EXCEPT ![t] = NoLocals]
        /\ IF NearestArgError(args) # ""
           THEN Finish(t, JsonError(400, NearestArgError(args)))
           ELSE /\ resp' = [resp EXCEPT ![t] = NoResponse]
                /\ pc' = [pc EXCEPT ![t] = "lookup"]
        /\ UNCHANGED <<fsExists, fsContent, cache, heap, environ, geocoder,
                       fileReads, locateCalls, netCalls, loadedOK>>

\* GET /nearest/by-zip: lines 270-272
BeginZip(t, zip, limit) ==
    LET args == ZipArgs(zip, limit)
    IN  /\ Idle(t)
        /\ req' = [req EXCEPT ![t] = args]
        /\ loc' = [loc EXCEPT ![t] = NoLocals]
        /\ IF ZipIsBad(StrippedArg(zip))
           THEN Finish(t, JsonError(400, "zip must be 7 digits (no hyphen)"))
           ELSE /\ resp' = [resp EXCEPT ![t] = NoResponse]
                /\ pc' = [pc EXCEPT ![t] = "zipkey"]
        /\ UNCHANGED <<fsExists, fsContent, cache, heap, environ, geocoder,
                       fileReads, locateCalls, netCalls, loadedOK>>

\* lines 274-294: the credential lookup and the geocoding call
ZipKey(t) ==
    /\ pc[t] = "zipkey"
    /\ IF ~NameIsBound(ENV_KEY_IDENT)
       THEN /\ Finish(t, Unhandled("NameError", <<ENV_KEY_IDENT>>))
            /\ UNCHANGED <<loc, netCalls>>
       ELSE IF environ = {}
       THEN /\ Finish(t, JsonError(500, "Server missing GOOGLE_MAPS_API_KEY env var"))
            /\ UNCHANGED <<loc, netCalls>>
       ELSE LET g == Geocode(geocoder.outcome, geocoder.location)
            IN  /\ netCalls' = netCalls + 1
                /\ loc' = [loc EXCEPT ![t].origin = g.origin]
                /\ IF g.done THEN Finish(t, g.response)
                   ELSE /\ pc' = [pc EXCEPT ![t] = "lookup"]
                        /\ UNCHANGED resp
    /\ UNCHANGED <<fsExists, fsContent, cache, heap, req, environ, geocoder,
                   fileReads, locateCalls, loadedOK, nreq>>

(***************************************************************************)
(* load_shelters under functools.lru_cache(maxsize=1) (lines 125-136).     *)
(* The wrapper looks the key up; on a miss it calls the function with no   *)
(* lock held, and stores the result when the call returns unless the key   *)
(* has been stored meanwhile.  An exception passes through the wrapper and *)
(* nothing is stored.  The function takes no argument, so there is one key *)
(* and the cache holds at most one result.                                 *)
(***************************************************************************)
\* what the wrapper keeps of a call that raised
CacheAfterRaise(c, exc) == c

\* what the wrapper keeps of a call that returned the list ref
CacheAfterReturn(c, ref) == IF c # <<>> THEN c ELSE <<ref>>

LruLookup(t) ==
    /\ pc[t] = "lookup"
    /\ IF cache # <<>>
       THEN /\ loc' = [loc EXCEPT ![t].result = cache[1]]
            /\ pc' = [pc EXCEPT ![t] = "respond"]
            /\ UNCHANGED resp
       ELSE /\ pc' = [pc EXCEPT ![t] = "detect"]
            /\ UNCHANGED <<loc, resp>>
    /\ UNCHANGED <<fsExists, fsContent, cache, heap, req, environ, geocoder,
                   fileReads, locateCalls, netCalls, loadedOK, nreq>>

\* _detect_csv_path: the first candidate that exists, or FileNotFoundError
\* naming every candidate
\* the FileNotFoundError of lines 78-80
NotFoundFirstOnly == Unhandled("FileNotFoundError", <<CSV_CANDIDATES[1]>>)

NotFoundError == Unhandled("FileNotFoundError", CSV_CANDIDATES)

FirstExisting(exists) ==
    IF \E c \in Candidates : exists[c]
    THEN CHOOSE c \in Candidates : exists[c] /\ \A b \in Candidates : exists[b] => c <= b
    ELSE 0

DetectCsvPath(t) ==
    /\ pc[t] = "detect"
    /\ locateCalls' = locateCalls + 1
    /\ IF FirstExisting(fsExists) # 0
       THEN /\ loc' = [loc EXCEPT ![t].path = FirstExisting(fsExists)]
            /\ pc' = [pc EXCEPT ![t] = "open"]
            /\ UNCHANGED <<resp, cache>>
       ELSE /\ Finish(t, NotFoundError)
            /\ cache' = CacheAfterRaise(cache, 0)
            /\ UNCHANGED loc
    /\ UNCHANGED <<fsExists, fsContent, heap, req, environ, geocoder,
                   fileReads, netCalls, loadedOK, nreq>>

\* lines 128-136: open the file found and parse every row into a new list;
\* open() raises FileNotFoundError when the file has gone since it was found
OpenAndParse(t) ==
    /\ pc[t] = "open"
    /\ IF fsExists[loc[t].path]
       THEN /\ fileReads' = fileReads + 1
            /\ heap' = Append(heap, ReadShelters(fsContent[loc[t].path]))
            /\ loc' = [loc EXCEPT ![t].result = Len(heap) + 1]
            /\ pc' = [pc EXCEPT ![t] = "store"]
            /\ UNCHANGED <<resp, cache>>
       ELSE /\ Finish(t, Unhandled("FileNotFoundError", <<CSV_CANDIDATES[loc[t].path]>>))
            /\ cache' = CacheAfterRaise(cache, 0)
            /\ UNCHANGED <<fileReads, heap, loc>>
    /\ UNCHANGED <<fsExists, fsContent, req, environ, geocoder,
                   locateCalls, netCalls, loadedOK, nreq>>

\* the wrapper after the call has returned
LruStore(t) ==
    /\ pc[t] = "store"
    /\ cache' = CacheAfterReturn(cache, loc[t].result)
    /\ loadedOK' = TRUE
    /\ pc' = [pc EXCEPT ![t] = "respond"]
    /\ UNCHANGED <<fsExists, fsContent, heap, req, loc, resp, environ, geocoder,
                   fileReads, locateCalls, netCalls, nreq>>

\* the view function after load_shelters has returned the list loc[t].result
Respond(t) ==
    /\ pc[t] = "respond"
    /\ LET all_items == heap[loc[t].result]
       IN  Finish(t, CASE req[t].kind = "list" -> list_shelters(all_items, req[t])
                       [] req[t].kind = "nearest" -> nearest(all_items, req[t])
                       [] req[t].kind = "zip" ->
                              nearest_by_zip_tail(all_items, loc[t].origin, req[t]))
    /\ UNCHANGED <<fsExists, fsContent, cache, heap, req, loc, environ, geocoder,
                   fileReads, locateCalls, netCalls, loadedOK, nreq>>

LoadStep(t) ==
    \/ LruLookup(t)
    \/ DetectCsvPath(t)
    \/ OpenAndParse(t)
    \/ LruStore(t)
    \/ Respond(t)

(***************************************************************************)
(* The file system around the process: a data file appears or goes.        *)
(***************************************************************************)
FileAppear(c) ==
    /\ ~fsExists[c]
    /\ fsExists' = [fsExists EXCEPT ![c] = TRUE]
    /\ UNCHANGED <<fsContent, cache, heap, pc, req, loc, resp, environ, geocoder,
                   fileReads, locateCalls, netCalls, loadedOK, nreq>>

FileRemove(c) ==
    /\ fsExists[c]
    /\ fsExists' = [fsExists EXCEPT ![c] = FALSE]
    /\ UNCHANGED <<fsContent, cache, heap, pc, req, loc, resp, environ, geocoder,
                   fileReads, locateCalls, netCalls, loadedOK, nreq>>

(***************************************************************************)
(* Inputs.                                                                 *)
(***************************************************************************)
SeqsUpTo(S, n) == UNION {[1..k -> S] : k \in 0..n}

File(header, rows) == [header |-> header, rows |-> rows]

EmptyFile == File(<<>>, <<>>)

\* every row over the columns cols, the cell of column c drawn from cells[c]
RECURSIVE RowsOver(_, _)
RowsOver(cols, cells) ==
    IF cols = <<>> THEN {<<>>}
    ELSE {(Head(cols) :> v) @@ r : v \in cells[Head(cols)], r \in RowsOver(Tail(cols), cells)}

OnlyFirstFile == [c \in Candidates |-> c = 1]

InitProcess ==
    /\ cache = <<>>
    /\ heap = <<>>
    /\ pc = [t \in Threads |-> "idle"]
    /\ req = [t \in Threads |-> NoArgs]
    /\ loc = [t \in Threads |-> NoLocals]
    /\ resp = [t \in Threads |-> NoResponse]
    /\ fileReads = 0
    /\ locateCalls = 0
    /\ netCalls = 0
    /\ loadedOK = FALSE
    /\ nreq = 0

NoGeocoding ==
    /\ environ = {}
    /\ geocoder = [outcome |-> "ok", location |-> [lat |-> Num(0), lon |-> Num(0)]]

(***************************************************************************)
(* SpecIngest: one request loads a data file drawn from the ingestion      *)
(* inputs: a facility-registry file of up to MaxRows rows, or a one-row    *)
(* generic file whose header lacks one registry column.                    *)
(***************************************************************************)
RegistryHeader == <<COL_NAME_A, COL_LAT_A, COL_LON_A>>

RegistryCells ==
    (COL_NAME_A :> {<<"a">>, <<>>})
    @@ (COL_LAT_A :> {<<"3", "5">>, <<"n", "a", "n">>, <<"x">>, None})
    @@ (COL_LON_A :> {<<"1", "3", "9">>, <<"-", "i", "n", "f">>, <<>>})

RegistryFiles ==
    {File(RegistryHeader, rows) :
        rows \in SeqsUpTo(RowsOver(RegistryHeader, RegistryCells), MaxRows)}

MergeCells ==
    ("lat" :> {None, <<>>, <<" ">>, <<"3", "5">>})
    @@ ("latitude" :> {<<>>, <<"3", "6">>})
    @@ (COL_LAT_A :> {<<>>, <<"3", "7">>})
    @@ ("lon" :> {<<>>, <<"x">>, <<"1", "3", "9">>})
    @@ ("lng" :> {<<>>, <<"1", "4", "0">>})
    @@ ("longitude" :> {<<>>, <<"1", "4", "1">>})
    @@ (COL_LON_A :> {<<>>, <<"1", "4", "2">>})
    @@ ("name" :> {<<>>, <<"a">>})
    @@ ("place" :> {<<>>, <<"b">>})
    @@ (COL_NAME_A :> {<<>>, <<"c">>})

MergeColumns ==
    <<"lat", "latitude", COL_LAT_A, "lon", "lng", "longitude", COL_LON_A,
      "name", "place", COL_NAME_A>>

MergeHeaders ==
    {SelectSeq(MergeColumns, LAMBDA c : c # dropped) :
        dropped \in {COL_LAT_A, COL_LON_A, COL_NAME_A}}

MergeFiles ==
    UNION {{File(h, <<row>>) : row \in RowsOver(h, MergeCells)} : h \in MergeHeaders}

InitIngest ==
    /\ fsExists = OnlyFirstFile
    /\ \E f \in RegistryFiles \cup MergeFiles :
          fsContent = [c \in Candidates |-> IF c = 1 THEN f ELSE EmptyFile]
    /\ NoGeocoding
    /\ InitProcess

NextIngest ==
    \/ (BeginList(1, None, None, None, None) /\ UNCHANGED nreq)
    \/ LoadStep(1)

SpecIngest == InitIngest /\ [][NextIngest]_vars

(***************************************************************************)
(* Claims on ingestion (SpecIngest).                                       *)
(***************************************************************************)
TheFile == fsContent[1]

IsMergeFile == _choose_parser(TheFile.header) = "merge"

\* the latitude and longitude cells a row is read from, by schema variant
LatCell(row) == IF IsMergeFile THEN MergeLatCell(row) ELSE RowGet(row, COL_LAT_A)
LonCell(row) == IF IsMergeFile THEN MergeLonCell(row) ELSE RowGet(row, COL_LON_A)

ParsesFinite(cell) == IsFinite(_safe_float(cell))

RowHasFiniteCoordinates(row) == ParsesFinite(LatCell(row)) /\ ParsesFinite(LonCell(row))

\* C3: ingestion never fails on a malformed row, and the dataset is exactly
\* the rows, in row order, whose latitude and longitude both parse as finite
\* numbers; no record has a missing or non-finite latitude or longitude.
C3_DatasetIsTheFiniteRows ==
    /\ \A t \in Threads : resp[t].exc = ""
    /\ \A i \in 1..Len(heap) :
          /\ heap[i] = ParseRows(_choose_parser(TheFile.header),
                                 SelectSeq(TheFile.rows, RowHasFiniteCoordinates))
          /\ \A j \in 1..Len(heap[i]) :
                IsFinite(heap[i][j].latitude) /\ IsFinite(heap[i][j].longitude)

\* the first alias, in the given order, whose cell is present and non-empty
FirstNonEmpty(row, aliases) ==
    IF \E i \in 1..Len(aliases) : Truthy(RowGet(row, aliases[i]))
    THEN RowGet(row, aliases[CHOOSE i \in 1..Len(aliases) :
                        /\ Truthy(RowGet(row, aliases[i]))
                        /\ \A j \in 1..(i - 1) : ~Truthy(RowGet(row, aliases[j]))])
    ELSE None

\* what a one-row generic file loads as when latitude, longitude and name
\* are taken from the first non-empty alias of the three priority lists
LoadedByAliases(latAliases, lonAliases, nameAliases) ==
    \A i \in 1..Len(heap) :
        LET row == TheFile.rows[1]
            lat == _safe_float(FirstNonEmpty(row, latAliases))
            lon == _safe_float(FirstNonEmpty(row, lonAliases))
            name == FirstNonEmpty(row, nameAliases)
        IN  IF lat = NoFloat \/ lon = NoFloat THEN heap[i] = <<>>
            ELSE /\ Len(heap[i]) = 1
                 /\ heap[i][1].latitude = lat
                 /\ heap[i][1].longitude = lon
                 /\ heap[i][1].name = (IF name = None THEN UNKNOWN_NAME ELSE name)

LatAliases == <<"lat", "latitude", COL_LAT_A>>
LonAliases == <<"lon", "lng", "longitude", COL_LON_A>>

\* C10 as stated: under the generic schema latitude is taken from lat, else
\* latitude, else the registry latitude column; longitude from lon, else lng,
\* else longitude, else the registry longitude column; name from name, else
\* place, else the registry name column.
C10_AliasOrderAsStated ==
    IsMergeFile =>
        LoadedByAliases(LatAliases, LonAliases, <<"name", "place", COL_NAME_A>>)

\* C10 as amended: the same, the cell being present and non-empty, with the
\* name taken from name, else the registry name column, else place.
C10_AliasOrderOfTheCode ==
    IsMergeFile =>
        LoadedByAliases(LatAliases, LonAliases, <<"name", COL_NAME_A, "place">>)

\* a generic row loaded with its latitude from the second alias and its name
\* from the registry name column although place is filled in
C10_Witness ==
    /\ IsMergeFile
    /\ pc[1] = "done"
    /\ Len(heap) = 1 /\ Len(heap[1]) = 1
    /\ RowGet(TheFile.rows[1], "lat") = <<>>
    /\ heap[1][1].latitude = Num(36)
    /\ RowGet(TheFile.rows[1], "name") = <<>>
    /\ RowGet(TheFile.rows[1], "place") = <<"b">>
    /\ heap[1][1].name = <<"c">>

(***************************************************************************)
(* SpecNearest: a facility-registry file of up to MaxRows rows is loaded   *)
(* by one /nearest request and the request is served from it.              *)
(***************************************************************************)
NearestCells ==
    (COL_NAME_A :> {<<"a">>, <<"b">>})
    @@ (COL_LAT_A :> {<<"0">>, <<"9", "0">>, <<"n", "a", "n">>, <<"i", "n", "f">>})
    @@ (COL_LON_A :> {<<"0">>, <<"9", "0">>, <<"1", "8", "0">>})

NearestFiles ==
    {File(RegistryHeader, rows) :
        rows \in SeqsUpTo(RowsOver(RegistryHeader, NearestCells), MaxRows)}

OriginLats == {None, <<"0">>, <<"9", "1">>}
OriginLons == {<<"0">>, <<"9", "0">>, <<"1", "8", "1">>}
NearestLimits == {None, <<"0">>, <<"1">>, <<"2">>}
NearestNs == {None, <<"1">>}

InitNearest ==
    /\ fsExists = OnlyFirstFile
    /\ \E f \in NearestFiles :
          fsContent = [c \in Candidates |-> IF c = 1 THEN f ELSE EmptyFile]
    /\ NoGeocoding
    /\ InitProcess

NextNearest ==
    \/ \E lat \in OriginLats, lon \in OriginLons, limit \in NearestLimits, n \in NearestNs :
          pc[1] = "idle" /\ BeginNearest(1, lat, lon, limit, n) /\ UNCHANGED nreq
    \/ LoadStep(1)

SpecNearest == InitNearest /\ [][NextNearest]_vars

\* the list a finished request was served from
ServedFrom(t) == heap[loc[t].result]

NearestServed(t) ==
    pc[t] = "done" /\ req[t].kind = "nearest" /\ NearestArgError(req[t]) = ""

DistanceTo(t, s) ==
    haversine_km(FloatArg(req[t].lat), FloatArg(req[t].lon), s.latitude, s.longitude).d

\* record i comes before record j: nearer, or as near and earlier in the dataset
RankedBefore(t, i, j) ==
    LET di == DistanceTo(t, ServedFrom(t)[i])
        dj == DistanceTo(t, ServedFrom(t)[j])
    IN  di < dj \/ (di = dj /\ i < j)

RankOf(t, i) == 1 + Cardinality({j \in 1..Len(ServedFrom(t)) : RankedBefore(t, j, i)})

IsSortedPrefix(t) ==
    LET data == ServedFrom(t)
        items == resp[t].body.items
    IN  /\ resp[t].body.limit \in 1..NEAREST_LIMIT_MAX
        /\ Len(items) = Min(resp[t].body.limit, Len(data))
        /\ \A i \in 1..Len(data) :
              RankOf(t, i) <= Len(items) =>
                  items[RankOf(t, i)] =
                      [shelter |-> to_dict(data[i]),
                       distance_km |-> Round3(DistanceTo(t, data[i]))]

\* C1: for every dataset and every valid origin, nearest returns exactly
\* min(limit, |dataset|) entries, limit clamped to [1,50]: the first entries
\* of the dataset ordered by non-decreasing distance from the origin, records
\* at equal distance in their dataset order.
C1_NearestIsSortedPrefix ==
    \A t \in Threads :
        NearestServed(t) => resp[t].status = 200 /\ IsSortedPrefix(t)

\* the same, for the datasets in which no coordinate is infinite
C1_SortedPrefixOfFiniteDatasets ==
    \A t \in Threads :
        (/\ NearestServed(t)
         /\ \A i \in 1..Len(ServedFrom(t)) :
               /\ ServedFrom(t)[i].latitude.k \notin {"inf", "ninf"}
               /\ ServedFrom(t)[i].longitude.k \notin {"inf", "ninf"})
        => resp[t].status = 200 /\ IsSortedPrefix(t)

\* two records at the same distance, the farther-listed one cut off by the limit
C1_TieWitness ==
    /\ NearestServed(1) /\ resp[1].status = 200
    /\ Len(ServedFrom(1)) = 2 /\ Len(resp[1].body.items) = 1
    /\ ServedFrom(1)[1] # ServedFrom(1)[2]
    /\ DistanceTo(1, ServedFrom(1)[1]) = DistanceTo(1, ServedFrom(1)[2])

(***************************************************************************)
(* SpecList: a generic file of up to MaxRows rows is loaded by one         *)
(* /shelters request and the request is served from it.                    *)
(***************************************************************************)
ListHeader == <<"name", "address", "lat", "lon">>

ListRow(name, address, lat, lon) ==
    ("name" :> name) @@ ("address" :> address) @@ ("lat" :> lat) @@ ("lon" :> lon)

ListRows ==
    {ListRow(<<"A", "b">>, <<>>, <<"0">>, <<"0">>),
     ListRow(<<>>, <<"B">>, <<"9", "0">>, <<"9", "0">>),
     ListRow(<<"a", " ", "a">>, <<"b">>, <<"0">>, <<"9", "0">>)}

ListFiles == {File(ListHeader, rows) : rows \in SeqsUpTo(ListRows, MaxRows)}

QSamples == {None, <<" ">>, <<"a">>, <<"B", " ">>, <<"a", "b">>}

\* bbox is minLon,minLat,maxLon,maxLat
BboxSamples ==
    {None,
     <<" ">>,
     <<"0", ",", "0", ",", "9", "0", ",", "9", "0">>,
     <<"0", ",", "0", ",", "9", "0", ",", "0">>,
     <<" ", "0", ",", "9", "0", ",", "0", ",", "9", "0", " ">>,
     <<"9", "0", ",", "0", ",", "0", ",", "0">>,
     <<"0", ",", "9", "0", ",", "0", ",", "0">>,
     <<"0", ",", "0", ",", "9", "0">>,
     <<"0", ",", ",", "0", ",", "9", "0", ",", "0">>,
     <<"0", ",", "0", ",", "x", ",", "9", "0">>}

ListLimits == {None, <<"1">>, <<"0">>, <<"x">>}
ListOffsets == {None, <<"1">>, <<"-", "1">>, <<"3">>}

InitList ==
    /\ fsExists = OnlyFirstFile
    /\ \E f \in ListFiles :
          fsContent = [c \in Candidates |-> IF c = 1 THEN f ELSE EmptyFile]
    /\ NoGeocoding
    /\ InitProcess

NextList ==
    \/ \E q \in QSamples, bbox \in BboxSamples, limit \in ListLimits, offset \in ListOffsets :
          pc[1] = "idle" /\ BeginList(1, q, bbox, limit, offset) /\ UNCHANGED nreq
    \/ LoadStep(1)

SpecList == InitList /\ [][NextList]_vars

ListServed(t) == pc[t] = "done" /\ req[t].kind = "list"

FormatErrors == {"bbox must be 'minLon,minLat,maxLon,maxLat'", "bbox values must be numbers"}
OrderingError == "bbox min must be <= max"

\* the bbox's comma-separated fields that are not blank, each stripped
Fields(bbox) ==
    LET segs == Split(bbox)
        idx == {i \in 1..Len(segs) : Strip(segs[i]) # <<>>}
        nth(k) == CHOOSE i \in idx : Cardinality({j \in idx : j < i}) = k - 1
    IN  [k \in 1..Cardinality(idx) |-> Strip(segs[nth(k)])]

AreFourNumbers(fields) ==
    Len(fields) = 4 /\ \A i \in 1..4 : FloatOfText(fields[i]) # NoFloat

\* fields are minLon, minLat, maxLon, maxLat
IsOrdered(fields) ==
    /\ ~FloatGt(FloatOfText(fields[2]), FloatOfText(fields[4]))
    /\ ~FloatGt(FloatOfText(fields[1]), FloatOfText(fields[3]))

WithinFields(item, fields) ==
    /\ FloatLe(FloatOfText(fields[2]), item.lat) /\ FloatLe(item.lat, FloatOfText(fields[4]))
    /\ FloatLe(FloatOfText(fields[1]), item.lon) /\ FloatLe(item.lon, FloatOfText(fields[3]))

\* the answer to a bbox whose fields are `fields`: a format error, an
\* ordering error, or a page of records inside the box
BboxAnswer(t, fields) ==
    IF ~AreFourNumbers(fields)
    THEN resp[t].status = 400 /\ resp[t].error \in FormatErrors
    ELSE IF ~IsOrdered(fields)
    THEN resp[t].status = 400 /\ resp[t].error = OrderingError
    ELSE /\ resp[t].status = 200
         /\ \E f \in resp[t].body.appliedFilters : f[1] = "bbox"
         /\ \A i \in 1..Len(resp[t].body.items) :
               WithinFields(resp[t].body.items[i], fields)

C7_EmptyFieldWitness ==
    /\ ListServed(1)
    /\ req[1].bbox = <<"0", ",", ",", "0", ",", "9", "0", ",", "0">>
    /\ resp[1].status = 200
    /\ Len(ServedFrom(1)) = 2
    /\ resp[1].body.total = 1

\* the record has the text q in its name or its address, letter case aside
HasText(s, q) ==
    Contains(Lower(s.name), Lower(q)) \/ Contains(Lower(s.address), Lower(q))

\* the record is inside the bbox, both ends included
InsideBbox(s, bbox) == WithinFields(to_dict(s), Fields(bbox))

BboxIsValid(bbox) == AreFourNumbers(Fields(bbox)) /\ IsOrdered(Fields(bbox))

\* the answer to a list request filtered by the text q (<<>>: no q filter)
\* and by its bbox: total, page and count
ListAnswer(t, q) ==
    LET bbox == StrippedArg(req[t].bbox)
        Satisfies(s) == (q # <<>> => HasText(s, q)) /\ (bbox # <<>> => InsideBbox(s, bbox))
        matching == SelectSeq(ServedFrom(t), Satisfies)
        total == Len(matching)
        body == resp[t].body
        limit == body.limit
        offset == body.offset
        asked == IntOfText(ArgOr(req[t].limit, TEXT_100))
        skipped == IntOfText(ArgOr(req[t].offset, TEXT_0))
    IN  /\ resp[t].status = 200
        /\ limit \in 1..LIST_LIMIT_MAX
        /\ (asked.ok /\ asked.v \in 1..LIST_LIMIT_MAX) => limit = asked.v
        /\ (asked.ok /\ asked.v < 1) => limit = 1
        /\ offset >= 0
        /\ (skipped.ok /\ skipped.v >= 0) => offset = skipped.v
        /\ body.total = total
        /\ body.total = Cardinality({i \in 1..Len(ServedFrom(t)) : Satisfies(ServedFrom(t)[i])})
        /\ body.items = [i \in 1..Len(body.items) |-> to_dict(matching[offset + i])]
        /\ body.count = Len(body.items)
        /\ body.count = (IF offset >= total THEN 0 ELSE Min(limit, total - offset))

ListHasValidFilters(t) ==
    /\ ListServed(t)
    /\ StrippedArg(req[t].bbox) # <<>> => BboxIsValid(StrippedArg(req[t].bbox))

\* C2 as stated: total is the number of records satisfying every supplied
\* filter, q being a case-insensitive substring of name or address and bbox
\* inclusive; the page is the slice [offset, offset+limit) of those records
\* in dataset order, limit clamped to [1,500] and offset to >= 0; count is
\* min(limit, total-offset), or 0 when offset >= total.  (A blank q is taken
\* as not supplied.)
C2_ListAsStated ==
    \A t \in Threads :
        ListHasValidFilters(t) =>
            ListAnswer(t, IF StrippedArg(req[t].q) = <<>> THEN <<>> ELSE req[t].q)

\* C2 as amended: the same, with q compared after the white space around it
\* is stripped, and a q or bbox that is blank taken as not supplied.
C2_ListOfStrippedQ ==
    \A t \in Threads :
        ListHasValidFilters(t) => ListAnswer(t, StrippedArg(req[t].q))

\* q and bbox together leave one record of two, and the offset is past it
C2_Witness ==
    /\ ListServed(1) /\ resp[1].status = 200
    /\ req[1].q = <<"a">>
    /\ req[1].bbox = <<"0", ",", "0", ",", "9", "0", ",", "0">>
    /\ Len(ServedFrom(1)) = 2
    /\ ServedFrom(1)[2].address = <<"B">>
    /\ resp[1].body.total = 1
    /\ resp[1].body.offset = 1
    /\ resp[1].body.count = 0

\* q matches the address only, in another letter case
C2_AddressWitness ==
    /\ ListServed(1) /\ resp[1].status = 200
    /\ req[1].q = <<"B", " ">>
    /\ Len(ServedFrom(1)) = 1
    /\ ServedFrom(1)[1].address = <<"b">>
    /\ ~Contains(Lower(ServedFrom(1)[1].name), <<"b">>)
    /\ resp[1].body.count = 1

(***************************************************************************)
(* Spec: the process under a threaded server.  NumThreads request threads  *)
(* serve up to MaxRequests /shelters and /nearest requests in any          *)
(* interleaving of their steps, while data files appear and go.            *)
(***************************************************************************)
MergedFile ==
    File(ListHeader, <<ListRow(<<"a">>, <<>>, <<"0">>, <<"9", "0">>),
                       ListRow(<<"b">>, <<>>, <<"0">>, <<"0">>)>>)

RegistryFile ==
    File(RegistryHeader,
         <<(COL_NAME_A :> <<"c">>) @@ (COL_LAT_A :> <<"0">>) @@ (COL_LON_A :> <<"0">>)>>)

DataFiles == <<MergedFile, RegistryFile>>

Init ==
    /\ fsExists \in [Candidates -> BOOLEAN]
    /\ fsContent = DataFiles
    /\ NoGeocoding
    /\ InitProcess

Counted(begin) == nreq < MaxRequests /\ begin /\ nreq' = nreq + 1

Next ==
    \/ \E t \in Threads : Counted(BeginList(t, None, None, None, None))
    \/ \E t \in Threads : Counted(BeginNearest(t, <<"0">>, <<"0">>, None, None))
    \/ \E t \in Threads : LoadStep(t)
    \/ \E c \in Candidates : FileAppear(c)
    \/ \E c \in Candidates : FileRemove(c)

Spec == Init /\ [][Next]_vars

NoDataFile == \A c \in Candidates : ~fsExists[c]

\* C6: when several requests call the loader before any load has completed,
\* ingestion (opening and parsing the data file) runs at most once across
\* all of them, in every interleaving.
C6_IngestionRunsAtMostOnce == fileReads <= 1 /\ Len(heap) <= 1

\* C4: once a call of the loader has succeeded, every later call returns the
\* same stored sequence, its contents and order unchanged, whatever list and
\* nearest queries run in between, and the data file is read once in total.
C4_SameSequenceReadOnce ==
    loadedOK =>
        /\ fileReads = 1
        /\ cache # <<>>
        /\ \A t \in Threads : pc[t] = "respond" => loc[t].result = cache[1]
        /\ \E c \in Candidates : heap[cache[1]] = ReadShelters(fsContent[c])

\* thread t takes the step it is at, p
Steps(t, p) == pc[t] = p /\ pc'[t] # p

FailsNamingAllCandidates(t) ==
    /\ pc'[t] = "done"
    /\ resp'[t] = Unhandled("FileNotFoundError", CSV_CANDIDATES)
    /\ locateCalls' = locateCalls + 1
    /\ cache' = cache
    /\ heap' = heap

\* C5 as stated: while no candidate data file exists, every call of the
\* loader runs file location again and fails with a not-found error naming
\* all the candidates tried; it never returns a dataset, and the failure is
\* not memoized.
C5_FailsWhileNoFile ==
    [][\A t \in Threads :
          /\ (NoDataFile /\ Steps(t, "lookup")) => pc'[t] = "detect"
          /\ (NoDataFile /\ Steps(t, "detect")) => FailsNamingAllCandidates(t)]_vars

\* C5 as amended: the same while no candidate data file exists and no
\* earlier call of the loader has succeeded.
C5_FailsWhileNoFileAndNotLoaded ==
    [][\A t \in Threads :
          /\ (NoDataFile /\ ~loadedOK /\ Steps(t, "lookup")) =>
                 pc'[t] = "detect" /\ cache' = <<>>
          /\ (NoDataFile /\ Steps(t, "detect")) => FailsNamingAllCandidates(t)]_vars

\* with no data file and nothing loaded, a request has failed naming all the
\* candidates after file location has run for the second time
C5_Witness ==
    /\ NoDataFile /\ ~loadedOK
    /\ locateCalls >= 2
    /\ \E t \in Threads :
          pc[t] = "done" /\ resp[t] = Unhandled("FileNotFoundError", CSV_CANDIDATES)

(***************************************************************************)
(* SpecZip: one thread serves /nearest/by-zip and /nearest requests, with  *)
(* the credential set or not and the geocoder answering in one of its      *)
(* ways.                                                                   *)
(***************************************************************************)
ZipSamples ==
    {None, <<>>,
     <<"1", "2", "3", "4", "5", "6", "7">>,
     <<" ", "1", "2", "3", "4", "5", "6", "7", " ">>,
     <<"1", "2", "3", "4", "5", "6">>,
     <<"1", "2", "3", "-", "4", "5", "6", "7">>}

InitZip ==
    /\ fsExists = OnlyFirstFile
    /\ fsContent = DataFiles
    /\ environ \in {{}, {"GOOGLE_MAPS_API_KEY"}}
    /\ \E o \in GeocoderOutcomes :
          geocoder = [outcome |-> o, location |-> [lat |-> Num(0), lon |-> Num(0)]]
    /\ InitProcess

NextZip ==
    \/ \E zip \in ZipSamples, limit \in {None, <<"1">>} :
          BeginZip(1, zip, limit) /\ UNCHANGED nreq
    \/ ZipKey(1)
    \/ \E lon \in {<<"0">>, <<"9", "0">>}, limit \in {None, <<"1">>} :
          BeginNearest(1, <<"0">>, lon, limit, None) /\ UNCHANGED nreq
    \/ LoadStep(1)

SpecZip == InitZip /\ [][NextZip]_vars

ZipServed(t) ==
    pc[t] = "done" /\ req[t].kind = "zip" /\ ~ZipIsBad(StrippedArg(req[t].zip))

\* C9: with a well-formed postal code and no geocoding credential in the
\* environment, the request fails with the service-not-configured error and
\* no geocoding network call is made.
C9_NoCredentialIsNotConfigured ==
    \A t \in Threads :
        (ZipServed(t) /\ environ = {}) =>
            /\ resp[t].status = 500
            /\ resp[t].exc = ""
            /\ resp[t].error = "Server missing GOOGLE_MAPS_API_KEY env var"
            /\ netCalls = 0

\* C8: with a well-formed postal code, every geocoding failure (transport
\* error or timeout, non-OK HTTP status, empty or not-OK result) ends the
\* request with a structured geocoding-failure response, never an unhandled
\* exception, transport failure and no-result being different categories.
C8_GeocodingFailureIsStructured ==
    \A t \in Threads :
        (ZipServed(t) /\ environ # {} /\ geocoder.outcome # "ok") =>
            /\ resp[t].exc = ""
            /\ geocoder.outcome \in {"transport", "http_error"} => resp[t].status = 502
            /\ geocoder.outcome = "no_result" => resp[t].status = 404

=============================================================================
